---------------------------- MODULE Spec2Model ----------------------------
(* Model of ebay_auction_generator.py: the record constructor               *)
(* Auction.from_yaml, the template renderer (generate_image_html,           *)
(* generate_html), the reader parse_auctions_file and the batch driver main.*)
(*                                                                          *)
(* Python text is a sequence of tokens (a token is a run of characters that *)
(* the model never splits); a Python value is a tagged record.              *)
EXTENDS Integers, Sequences, FiniteSets, TLC

VARIABLES
    status,        \* what open(args.auctions_file, 'r') does: "ok", "notfound", "denied"
    docs,          \* the documents of the input file, in file order
    dstatus,       \* what open(data['description_file'], 'r') does
    fs0,           \* the output directory before the run
    fs,            \* the output directory now: file name -> content
    pc,            \* position of main
    d,             \* parse_auctions_file: index of the document being built
    auctions,      \* the list parse_auctions_file builds and main iterates
    idx,           \* main: index of the record the for loop is at
    html_content,  \* main: the last value generate_html returned
    log            \* the lines printed so far

vars == <<status, docs, dstatus, fs0, fs, pc, d, auctions, idx, html_content, log>>

(* Upper bound on the number of documents in a multi-document input file. *)
MaxDocs == 2

----------------------------------------------------------------------------
(* Python values *)

Absent == [tag |-> "absent", s |-> <<>>]
None == [tag |-> "none", s |-> <<>>]
Str(s) == [tag |-> "str", s |-> s]
Bool(b) == [tag |-> "bool", s |-> IF b THEN <<"True">> ELSE <<"False">>]

(* bool(v) *)
Truthy(v) ==
    CASE v.tag = "str" -> v.s # <<>>
      [] v.tag = "bool" -> v.s = <<"True">>
      [] OTHER -> FALSE

(* str(v) as an f-string or str.format inserts it *)
Fmt(v) == IF v.tag = "none" THEN <<"None">> ELSE v.s

(* dict.get(key, default), applied to the value stored under the key *)
Get(v, default) == IF v.tag = "absent" THEN default ELSE v

(* sub in text *)
Contains(text, sub) ==
    \E i \in 1..(Len(text) - Len(sub) + 1) : SubSeq(text, i, i + Len(sub) - 1) = sub

----------------------------------------------------------------------------
(* Fixed text *)

ExpressClause ==
    << "This item will be delivered by Express Post. If you live in Perth you can also pick it up. Postage and Handling Costs: ",
       "$15.00" >>

PickupClause == << "Not applicable: pick up in Bibra Lake only" >>

HandlingFee == << "$15.00" >>

PlaceholderHead == "You are bidding on: "
PlaceholderTail == "\n\nHappy bidding and thanks for looking!"

ImagesOpen == "\n\n<div class=\"images-container\">\n"
ImagesClose == "\n</div>\n\n"
ShippingHead == "\n\n## Payment Policy ... ## Shipping Policy ... The following freight charges are applicable:\n\n* "
ShippingTail == "\n\n## Returns Policy ... ## Terms & Conditions ... ## About Us ...\n"

ImgOpen == "<img src=\""
ImgAlt == "\" alt=\""
ImgClose == "\">"

RawUrlPrefix == "https://raw.githubusercontent.com/rdapaz/ebay_listings/main/artefacts/"

FileText == << "Text of the description file." >>

----------------------------------------------------------------------------
(* Auction.from_yaml *)

Auction(title, description, override, photo_1, photo_2, out_file) ==
    [title |-> title, description |-> description, override |-> override,
     photo_1 |-> photo_1, photo_2 |-> photo_2, out_file |-> out_file]

NoAuction == Auction(Absent, Absent, FALSE, Absent, Absent, Absent)

Placeholder(title) == <<PlaceholderHead>> \o title \o <<PlaceholderTail>>

Returned(rec, printed) == [raised |-> "", rec |-> rec, printed |-> printed]
Raised(exc, printed) == [raised |-> exc, rec |-> NoAuction, printed |-> printed]

WarningLine(file) == [kind |-> "warning_description_file", arg |-> Fmt(file)]

(* cls(...) with the description the first half of from_yaml resolved *)
Construct(data, description, printed) ==
    Returned(Auction(Get(data.title, Str(<<>>)),
                     description,
                     Truthy(Get(data.override, Bool(FALSE))),
                     Get(data.photo_1, Str(<<>>)),
                     Get(data.photo_2, None),
                     Get(data.out_file, Str(<<>>))),
             printed)

(* the except FileNotFoundError handler of from_yaml *)
NotFoundHandler(data) ==
    IF data.title.tag = "absent"
    THEN Raised("KeyError", <<WarningLine(data.description_file)>>)
    ELSE Construct(data, Str(Placeholder(Fmt(data.title))),
                   <<WarningLine(data.description_file)>>)

(* from_yaml(data) where opening the description file does dstat *)
from_yaml(data, dstat) ==
    IF data.kind # "mapping" THEN Raised("AttributeError", <<>>)
    ELSE LET description == Get(data.description, Str(<<>>))
         IN  IF ~Truthy(description) /\ data.description_file.tag # "absent"
             THEN CASE data.description_file.tag # "str" -> Raised("TypeError", <<>>)
                    [] data.description_file.tag = "str" /\ dstat = "ok" ->
                           Construct(data, Str(FileText), <<>>)
                    [] data.description_file.tag = "str" /\ dstat = "notfound" ->
                           NotFoundHandler(data)
                    [] OTHER -> Raised("PermissionError", <<>>)
             ELSE Construct(data, description, <<>>)

----------------------------------------------------------------------------
(* get_github_raw_url, generate_image_html, generate_html *)

get_github_raw_url(image_path) ==
    IF ~Truthy(image_path) THEN <<>> ELSE <<RawUrlPrefix>> \o Fmt(image_path)

ImgTag(pic) ==
    <<ImgOpen>> \o get_github_raw_url(pic) \o <<ImgAlt>> \o Fmt(pic) \o <<ImgClose>>

(* "\n".join(images) *)
RECURSIVE Join(_)
Join(images) ==
    IF images = <<>> THEN <<>>
    ELSE IF Len(images) = 1 THEN Head(images)
    ELSE Head(images) \o <<"\n">> \o Join(Tail(images))

(* the second image added whenever photo_2 is not None *)
SecondImageIfNotNone(pic2) == IF pic2.tag # "none" THEN <<ImgTag(pic2)>> ELSE <<>>

(* if pic2: images.append(...) *)
SecondImage(pic2) == IF Truthy(pic2) THEN <<ImgTag(pic2)>> ELSE <<>>

generate_image_html(pic1, pic2) ==
    Join(<<IF Truthy(pic1) THEN ImgTag(pic1) ELSE <<>>>> \o SecondImage(pic2))

(* the two shipping texts exchanged *)
PostageInverted(override) == IF override THEN PickupClause ELSE ExpressClause

Postage(override) == IF override THEN ExpressClause ELSE PickupClause

(* TEMPLATE_MD.format(title=..., images=..., description=..., postage=...) *)
TemplateFormat(title, images, description, postage) ==
    <<"\n# ">> \o Fmt(title) \o <<ImagesOpen>> \o images \o <<ImagesClose>>
        \o Fmt(description) \o <<ShippingHead>> \o postage \o <<ShippingTail>>

markdown_content(auction) ==
    TemplateFormat(auction.title,
                   generate_image_html(auction.photo_1, auction.photo_2),
                   auction.description,
                   Postage(auction.override))

(* The document generate_html returns: the shell around the converted       *)
(* markup.  markdown2 and tidylib are libraries outside the repository; the *)
(* body keeps the markup they are given.                                    *)
generate_html(auction) ==
    [kind |-> "html",
     title |-> Fmt(auction.title) \o <<" - eBay Listing">>,
     body |-> markdown_content(auction)]

----------------------------------------------------------------------------
(* Files of the output directory *)

FileNames == {"a.html", "b.html"}

NoFile == [kind |-> "none", title |-> <<>>, body |-> <<>>]
OldFile == [kind |-> "old", title |-> <<>>, body |-> <<>>]
Truncated == [kind |-> "truncated", title |-> <<>>, body |-> <<>>]

(* output_dir / auction.out_file: a name in the directory, the directory    *)
(* itself for '', TypeError for a value that is no string                   *)
PathRaises(auction) == auction.out_file.tag # "str"
output_file(auction) == auction.out_file.s
IsDirectory(path) == path = <<>>

(* a write that leaves a file that already exists as it is *)
WriteTextKeepExisting(files, path, content) ==
    IF files[path[1]] = NoFile THEN [files EXCEPT ![path[1]] = content] ELSE files

(* f.write(html_content) on the file opened with 'w' *)
WriteText(files, path, content) == [files EXCEPT ![path[1]] = content]


----------------------------------------------------------------------------
(* The input file: what yaml.safe_load_all yields for each document *)

Doc(kind, title, description, description_file, override, photo_1, photo_2, out_file) ==
    [kind |-> kind, title |-> title, description |-> description,
     description_file |-> description_file, override |-> override,
     photo_1 |-> photo_1, photo_2 |-> photo_2, out_file |-> out_file]

Other(kind) == Doc(kind, Absent, Absent, Absent, Absent, Absent, Absent, Absent)

(* an empty document, a document that is a YAML sequence, a document the    *)
(* YAML scanner rejects                                                     *)
NullDoc == Other("null")
SequenceDoc == Other("sequence")
SyntaxErrorDoc == Other("syntax_error")

Keys(doc) ==
    {doc.title, doc.description, doc.description_file, doc.override,
     doc.photo_1, doc.photo_2, doc.out_file}

(* bool(doc): None and the empty mapping are false *)
DocTruthy(doc) ==
    \/ doc.kind = "sequence"
    \/ doc.kind = "mapping" /\ Keys(doc) # {Absent}

(* Documents of the multi-document input files *)
BatchDocs ==
    {NullDoc, SequenceDoc, SyntaxErrorDoc}
    \cup { Doc("mapping", t, Absent, f, Absent, Absent, Absent, o) :
             t \in {Absent, Str(<<"Lego Set">>)},
             f \in {Absent, Str(<<"desc.md">>)},
             o \in {None, Str(<<"a.html">>), Str(<<"b.html">>)} }

(* Documents of the one-document input files: every field varies *)
RecordDocs ==
    { Doc("mapping", t, de, f, ov, p1, p2, o) :
        t \in {Absent, None, Str(<<"Lego Set">>)},
        de \in {Absent, None, Str(<<>>), Str(<<"A great read.">>),
                Str(PickupClause), Str(ExpressClause)},
        f \in {Absent, Str(<<"desc.md">>)},
        ov \in {Absent, Bool(TRUE), Bool(FALSE)},
        p1 \in {Absent, Str(<<>>), Str(<<"lego1.jpg">>)},
        p2 \in {Absent, Str(<<>>), Str(<<"lego2.jpg">>)},
        o \in {Absent, None, Str(<<"a.html">>)} }

RECURSIVE SeqsUpTo(_, _)
SeqsUpTo(S, n) ==
    IF n = 0 THEN {<<>>}
    ELSE LET shorter == SeqsUpTo(S, n - 1)
         IN  shorter \cup {Append(q, x) : q \in {r \in shorter : Len(r) = n - 1}, x \in S}

InputFiles == SeqsUpTo(BatchDocs, MaxDocs) \cup {<<doc>> : doc \in RecordDocs}

----------------------------------------------------------------------------
(* Printed lines *)

Line(kind, arg) == [kind |-> kind, arg |-> arg]

Outcome(line) == line.kind \in {"generated", "error_writing"}

----------------------------------------------------------------------------
(* State *)

Init ==
    /\ status \in {"ok", "notfound", "denied"}
    /\ docs \in InputFiles
    /\ dstatus \in {"ok", "notfound", "denied"}
    /\ fs0 \in {[n \in FileNames |-> NoFile],
                [n \in FileNames |-> IF n = "a.html" THEN OldFile ELSE NoFile]}
    /\ fs = fs0
    /\ pc = "start"
    /\ d = 1
    /\ auctions = <<>>
    /\ idx = 1
    /\ html_content = NoFile
    /\ log = <<>>

(* main without its except Exception clause: only FileNotFoundError is      *)
(* reported, any other failure to open ends main with the traceback         *)
OpenRaisesNotFoundOnly ==
    /\ pc = "start"
    /\ status # "ok"
    /\ log' = IF status = "notfound" THEN Append(log, Line("error_not_found", <<>>)) ELSE log
    /\ pc' = IF status = "notfound" THEN "done" ELSE "crashed"
    /\ UNCHANGED <<status, docs, dstatus, fs0, fs, d, auctions, idx, html_content>>

(* main: parse_auctions_file raised at open(filename, 'r'); the two except  *)
(* clauses print and return                                                 *)
OpenRaises ==
    /\ pc = "start"
    /\ status # "ok"
    /\ log' = Append(log, IF status = "notfound"
                          THEN Line("error_not_found", <<>>)
                          ELSE Line("error_reading", <<>>))
    /\ pc' = "done"
    /\ UNCHANGED <<status, docs, dstatus, fs0, fs, d, auctions, idx, html_content>>

(* list(yaml.safe_load_all(f)) raised: some document does not scan; main    *)
(* catches it with except Exception and returns                             *)
LoadRaises ==
    /\ pc = "start"
    /\ status = "ok"
    /\ \E i \in 1..Len(docs) : docs[i].kind = "syntax_error"
    /\ log' = Append(log, Line("error_reading", <<>>))
    /\ pc' = "done"
    /\ UNCHANGED <<status, docs, dstatus, fs0, fs, d, auctions, idx, html_content>>

(* list(yaml.safe_load_all(f)) returned every document *)
LoadAll ==
    /\ pc = "start"
    /\ status = "ok"
    /\ \A i \in 1..Len(docs) : docs[i].kind # "syntax_error"
    /\ pc' = "parse"
    /\ d' = 1
    /\ auctions' = <<>>
    /\ UNCHANGED <<status, docs, dstatus, fs0, fs, idx, html_content, log>>

(* if doc: is false *)
SkipEmpty ==
    /\ pc = "parse"
    /\ d <= Len(docs)
    /\ ~DocTruthy(docs[d])
    /\ d' = d + 1
    /\ UNCHANGED <<status, docs, dstatus, fs0, fs, pc, auctions, idx, html_content, log>>

(* auctions.append(Auction.from_yaml(doc)) *)
BuildAuction ==
    /\ pc = "parse"
    /\ d <= Len(docs)
    /\ DocTruthy(docs[d])
    /\ LET r == from_yaml(docs[d], dstatus)
       IN  /\ r.raised = ""
           /\ auctions' = Append(auctions, r.rec)
           /\ log' = log \o r.printed
    /\ d' = d + 1
    /\ UNCHANGED <<status, docs, dstatus, fs0, fs, pc, idx, html_content>>

(* from_yaml raised: except Exception, print, continue *)
BuildRaises ==
    /\ pc = "parse"
    /\ d <= Len(docs)
    /\ DocTruthy(docs[d])
    /\ LET r == from_yaml(docs[d], dstatus)
       IN  /\ r.raised # ""
           /\ log' = log \o r.printed \o <<Line("error_parsing", <<r.raised>>)>>
    /\ d' = d + 1
    /\ UNCHANGED <<status, docs, dstatus, fs0, fs, pc, auctions, idx, html_content>>

(* return auctions; main enters its for loop *)
ParseReturn ==
    /\ pc = "parse"
    /\ d > Len(docs)
    /\ pc' = "loop"
    /\ idx' = 1
    /\ UNCHANGED <<status, docs, dstatus, fs0, fs, d, auctions, html_content, log>>

(* output_dir / auction.out_file raised, outside the try: main ends with    *)
(* the traceback                                                            *)
PathJoinRaises ==
    /\ pc = "loop"
    /\ idx <= Len(auctions)
    /\ PathRaises(auctions[idx])
    /\ pc' = "crashed"
    /\ UNCHANGED <<status, docs, dstatus, fs0, fs, d, auctions, idx, html_content, log>>

(* markdown2.markdown or tidylib.tidy_document raised *)
GenerateRaises ==
    /\ pc = "loop"
    /\ idx <= Len(auctions)
    /\ ~PathRaises(auctions[idx])
    /\ log' = Append(log, Line("error_writing", output_file(auctions[idx])))
    /\ idx' = idx + 1
    /\ UNCHANGED <<status, docs, dstatus, fs0, fs, pc, d, auctions, html_content>>

(* what generate_html prints: tidy's report, when it has one *)
TidyReport(tidy) == IF tidy THEN <<Line("tidy_report", <<>>)>> ELSE <<>>

(* generate_html returned; open(output_file, 'w') raised (the file is left  *)
(* as it was) or f.write raised (the file is left truncated)                *)
WriteRaises ==
    /\ pc = "loop"
    /\ idx <= Len(auctions)
    /\ ~PathRaises(auctions[idx])
    /\ \E tidy \in BOOLEAN, opened \in BOOLEAN :
         LET path == output_file(auctions[idx])
         IN  /\ opened => ~IsDirectory(path)
             /\ html_content' = generate_html(auctions[idx])
             /\ fs' = IF opened THEN WriteText(fs, path, Truncated) ELSE fs
             /\ log' = log \o TidyReport(tidy) \o <<Line("error_writing", path)>>
    /\ idx' = idx + 1
    /\ UNCHANGED <<status, docs, dstatus, fs0, pc, d, auctions>>

(* generate_html returned and the file was written *)
WriteOk ==
    /\ pc = "loop"
    /\ idx <= Len(auctions)
    /\ ~PathRaises(auctions[idx])
    /\ \E tidy \in BOOLEAN :
         LET path == output_file(auctions[idx])
         IN  /\ ~IsDirectory(path)
             /\ html_content' = generate_html(auctions[idx])
             /\ fs' = WriteText(fs, path, html_content')
             /\ log' = log \o TidyReport(tidy) \o <<Line("generated", path)>>
    /\ idx' = idx + 1
    /\ UNCHANGED <<status, docs, dstatus, fs0, pc, d, auctions>>

(* the for loop is exhausted *)
Finish ==
    /\ pc = "loop"
    /\ idx > Len(auctions)
    /\ pc' = "done"
    /\ UNCHANGED <<status, docs, dstatus, fs0, fs, d, auctions, idx, html_content, log>>

Next ==
    \/ OpenRaises
    \/ LoadRaises
    \/ LoadAll
    \/ SkipEmpty
    \/ BuildAuction
    \/ BuildRaises
    \/ ParseReturn
    \/ PathJoinRaises
    \/ GenerateRaises
    \/ WriteRaises
    \/ WriteOk
    \/ Finish

Spec == Init /\ [][Next]_vars

----------------------------------------------------------------------------
(* Vocabulary of the properties *)

Ended == pc \in {"done", "crashed"}

(* parse_auctions_file returned its list *)
Parsed == pc \in {"loop", "done", "crashed"} /\ status = "ok" /\ d > Len(docs)

(* the files the run created or changed *)
Written == {n \in FileNames : fs[n] # fs0[n]}

Outcomes == SelectSeq(log, Outcome)

(* the records of the documents that are not skipped, in document order *)
RECURSIVE RecordsOf(_)
RecordsOf(ds) ==
    IF ds = <<>> THEN <<>>
    ELSE LET r == from_yaml(Head(ds), dstatus)
         IN  IF DocTruthy(Head(ds)) /\ r.raised = ""
             THEN <<r.rec>> \o RecordsOf(Tail(ds))
             ELSE RecordsOf(Tail(ds))

IsError(line) == line.kind \in {"error_parsing", "error_reading", "error_not_found"}

NonEmpty(v) == v.tag = "str" /\ v.s # <<>>

(* no inline description, and a description_file that cannot be read *)
ReadFails(doc) ==
    /\ doc.kind = "mapping"
    /\ ~NonEmpty(doc.description)
    /\ doc.description_file.tag = "str"
    /\ dstatus # "ok"

(* no inline description and no readable description_file *)
LacksDescription(doc) ==
    /\ doc.kind = "mapping"
    /\ ~NonEmpty(doc.description)
    /\ (doc.description_file.tag = "absent" \/ dstatus # "ok")

(* html_content holds the document of the record the loop has just left *)
Rendered == pc \in {"loop", "done"} /\ idx > 1 /\ html_content.kind = "html"
          /\ html_content = generate_html(auctions[idx - 1])

Position(text, token) == CHOOSE i \in 1..Len(text) : text[i] = token /\ \A j \in 1..(i - 1) : text[j] # token
LastPosition(text, token) == CHOOSE i \in 1..Len(text) : text[i] = token /\ \A j \in (i + 1)..Len(text) : text[j] # token

(* the text between the images container's opening and closing lines *)
ImagesSection(markup) ==
    SubSeq(markup, Position(markup, ImagesOpen) + 1, Position(markup, ImagesClose) - 1)

(* the text of the freight-charges bullet of the Shipping Policy section *)
PostageSlot(markup) ==
    SubSeq(markup, LastPosition(markup, ShippingHead) + 1, LastPosition(markup, ShippingTail) - 1)

CountImg(text) == Cardinality({i \in 1..Len(text) : text[i] = ImgOpen})

ImgFor(pic) == <<ImgOpen, RawUrlPrefix>> \o pic.s \o <<ImgAlt>> \o pic.s \o <<ImgClose>>

----------------------------------------------------------------------------
(* C1: when the run has ended, every constructed record has been taken      *)
(* through the loop: no failure on one record (resolving its output path,   *)
(* rendering, assembling, writing) ends the run before the later records.   *)
C1_NoRecordFailureEndsRun == Ended => idx > Len(auctions)

(* C2: for an input file of one malformed document followed by one valid    *)
(* document, with no render or write failure, the run ends normally with    *)
(* one record constructed, exactly one file written (the valid document's)  *)
(* and exactly one error line.                                              *)
C2_MalformedThenValid ==
    ( /\ Ended
      /\ status = "ok"
      /\ Len(docs) = 2
      /\ docs[1].kind \in {"syntax_error", "sequence"}
      /\ docs[2].kind = "mapping"
      /\ NonEmpty(docs[2].title) /\ NonEmpty(docs[2].out_file)
      /\ docs[2].description_file = Absent
      /\ \A i \in 1..Len(log) : log[i].kind # "error_writing" )
    => /\ pc = "done"
       /\ Len(auctions) = 1
       /\ Written = {docs[2].out_file.s[1]}
       /\ Len(SelectSeq(log, IsError)) = 1

(* C3: every document with no inline description and a description_file     *)
(* whose read fails yields a record whose description is the placeholder    *)
(* built on its title ('' without a title key), and a warning is printed.   *)
C3_ReadFailureKeepsRecord ==
    Parsed =>
      \A i \in 1..Len(docs) :
        ReadFails(docs[i]) =>
          /\ \E j \in 1..Len(auctions) :
               /\ auctions[j].description
                    = Str(Placeholder(Fmt(Get(docs[i].title, Str(<<>>)))))
               /\ auctions[j].out_file = Get(docs[i].out_file, Str(<<>>))
          /\ \E k \in 1..Len(log) : log[k].kind = "warning_description_file"

(* C4: the record built from a document with no (or an empty) description   *)
(* and no readable description_file, the key absent included, has the       *)
(* placeholder with the record's title as its description.                  *)
C4_PlaceholderDescription ==
    (Parsed /\ Len(docs) = 1 /\ Len(auctions) = 1 /\ LacksDescription(docs[1]))
    => auctions[1].description = Str(Placeholder(Fmt(auctions[1].title)))

(* C5: every constructed record has a string title and a string             *)
(* description, neither of them None.                                       *)
C5_TitleAndDescriptionAreStrings ==
    \A j \in 1..Len(auctions) :
        auctions[j].title.tag = "str" /\ auctions[j].description.tag = "str"

(* C6: when the input file cannot be opened, the run prints one error line  *)
(* and returns; no record is built or rendered and the output directory     *)
(* holds what it held before the run.                                       *)
C6_UnopenableInputWritesNothing ==
    status # "ok" =>
      /\ pc \in {"start", "done"}
      /\ fs = fs0
      /\ auctions = <<>>
      /\ html_content = NoFile
      /\ pc = "start" => log = <<>>
      /\ pc = "done" =>
           log = <<Line(IF status = "notfound" THEN "error_not_found" ELSE "error_reading", <<>>)>>

C6_Witness ==
    status = "denied" /\ pc = "done" /\ docs # <<>> /\ fs0["a.html"] = OldFile

(* C7: the constructed records are those of the documents not skipped, in   *)
(* document order; when the run has ended, the outcome lines (success or    *)
(* error, one per record) are as many as the records and name the records'  *)
(* output paths in that order.                                              *)
C7_OneOutcomeLinePerRecordInOrder ==
    Ended =>
      /\ Parsed => auctions = RecordsOf(docs)
      /\ Len(Outcomes) = Len(auctions)
      /\ \A i \in 1..Len(auctions) :
           i <= Len(Outcomes) => Outcomes[i].arg = Fmt(auctions[i].out_file)

AllGenerated ==
    /\ pc = "done"
    /\ Parsed
    /\ Len(Outcomes) = Len(auctions)
    /\ \A i \in 1..Len(Outcomes) : Outcomes[i].kind = "generated"

FileOf(auction) == auction.out_file.s[1]

(* C8 as claimed: when all n records were rendered and written without      *)
(* error, n files were written and each record's file holds its document.   *)
C8_OneFilePerRecord ==
    AllGenerated =>
      /\ Cardinality(Written) = Len(auctions)
      /\ \A i \in 1..Len(auctions) : fs[FileOf(auctions[i])] = generate_html(auctions[i])

LastFor(n) ==
    CHOOSE i \in 1..Len(auctions) :
        /\ FileOf(auctions[i]) = n
        /\ \A j \in (i + 1)..Len(auctions) : FileOf(auctions[j]) # n

(* C8 amended: when all n records were rendered and written without error,  *)
(* the files written are the records' output paths, one file per distinct   *)
(* path, each holding the document of the last record with that path; with  *)
(* pairwise distinct paths that is n files, each holding its own record's   *)
(* document.                                                                *)
C8_OneFilePerDistinctPath ==
    AllGenerated =>
      /\ Written = {FileOf(auctions[i]) : i \in 1..Len(auctions)}
      /\ \A n \in Written : fs[n] = generate_html(auctions[LastFor(n)])
      /\ \A n \in FileNames \ Written : fs[n] = fs0[n]
      /\ (\A i, j \in 1..Len(auctions) : i # j => FileOf(auctions[i]) # FileOf(auctions[j]))
           => /\ Cardinality(Written) = Len(auctions)
              /\ \A i \in 1..Len(auctions) :
                   fs[FileOf(auctions[i])] = generate_html(auctions[i])

C8_Witness ==
    /\ AllGenerated
    /\ Len(auctions) = 2
    /\ FileOf(auctions[1]) # FileOf(auctions[2])
    /\ fs0["a.html"] = OldFile

(* C9 as claimed: the rendered markup holds the expedited-shipping clause   *)
(* with "$15.00" and not the pickup-only clause when override is true, the  *)
(* pickup-only clause and not the expedited one when it is false.           *)
C9_ClausesExclusiveInOutput ==
    Rendered =>
      LET a == auctions[idx - 1]
          m == html_content.body
      IN  IF a.override
          THEN Contains(m, ExpressClause) /\ Contains(m, HandlingFee)
               /\ ~Contains(m, PickupClause)
          ELSE Contains(m, PickupClause) /\ ~Contains(m, ExpressClause)

(* C9 amended: the freight-charges bullet of the rendered markup is the     *)
(* expedited-shipping clause with "$15.00" when override is true and the    *)
(* pickup-only clause when it is false, never both; the other clause occurs *)
(* in the output only where the title or the description brings it.         *)
C9_ClauseSelectedByOverride ==
    Rendered =>
      LET a == auctions[idx - 1]
          m == html_content.body
          chosen == IF a.override THEN ExpressClause ELSE PickupClause
          other == IF a.override THEN PickupClause ELSE ExpressClause
      IN  /\ PostageSlot(m) = chosen
          /\ Contains(m, chosen)
          /\ a.override => Contains(PostageSlot(m), HandlingFee)
          /\ ~Contains(PostageSlot(m), other)
          /\ Contains(m, other)
               => Contains(Fmt(a.title), other) \/ Contains(Fmt(a.description), other)

C9_Witness ==
    /\ Rendered
    /\ auctions[idx - 1].override
    /\ auctions[idx - 1].description = Str(PickupClause)

(* C10 as claimed: the image section holds one image reference for photo_1  *)
(* exactly when it is non-empty and one for photo_2 exactly when it is      *)
(* present (not None).                                                      *)
C10_ImageWhenPresent ==
    Rendered =>
      LET a == auctions[idx - 1]
      IN  CountImg(ImagesSection(html_content.body))
            = (IF NonEmpty(a.photo_1) THEN 1 ELSE 0)
              + (IF a.photo_2.tag # "none" THEN 1 ELSE 0)

(* C10 amended: the image section holds one image reference for photo_1     *)
(* exactly when it is non-empty and one for photo_2 exactly when it is      *)
(* present and non-empty, each with the raw URL of its photo; none when     *)
(* photo_1 is empty and photo_2 is absent or empty.                         *)
C10_ImageWhenNonEmpty ==
    Rendered =>
      LET a == auctions[idx - 1]
          section == ImagesSection(html_content.body)
      IN  /\ CountImg(section)
               = (IF NonEmpty(a.photo_1) THEN 1 ELSE 0)
                 + (IF NonEmpty(a.photo_2) THEN 1 ELSE 0)
          /\ NonEmpty(a.photo_1) <=> Contains(section, ImgFor(a.photo_1))
          /\ NonEmpty(a.photo_2) <=> Contains(section, ImgFor(a.photo_2))
          /\ (~NonEmpty(a.photo_1) /\ ~NonEmpty(a.photo_2)) => section = <<>>

C10_Witness ==
    /\ Rendered
    /\ NonEmpty(auctions[idx - 1].photo_1)
    /\ auctions[idx - 1].photo_2 = Str(<<>>)

============================================================================
